---- MODULE Spec2Model ----
(***************************************************************************)
(* A model of setup.py of MACREL: the script executed top to bottom once.  *)
(* The state is the position in the script (pc), the module globals the    *)
(* script binds, and the environment it runs in: the interpreter and its   *)
(* default text encoding, the version file, README.md, and the outcome of  *)
(* package discovery.  History variables record the exceptions, the opens  *)
(* and the calls to setuptools.setup.                                      *)
(***************************************************************************)
EXTENDS Naturals, Sequences, FiniteSets

VARIABLES
    pc,           \* the statement about to run, "done" or "error"
    env,          \* the environment of the run (fixed by Init)
    globals,      \* module globals: __version__ and long_description
    packages,     \* module global `packages` (line 42)
    err,          \* the uncaught exception that ended the script, or "none"
    errAt,        \* the pc at which it was raised, or "none"
    caught,       \* the exception the bare except (line 31) caught, or "none"
    partial,      \* what the failed first read had decoded before it raised
    opens,        \* number of open() calls per file and mode
    findCalls,    \* number of calls of setuptools.find_packages
    staged,       \* the evaluated keyword arguments of the setup call
    setupCalls,   \* the calls of setuptools.setup made so far
    trace         \* the completed stages of the script, in order

vars == <<pc, env, globals, packages, err, errAt, caught, partial, opens,
          findCalls, staged, setupCalls, trace>>

----------------------------------------------------------------------------
(* Bounds of the environment.                                              *)

\* longest README.md, in bytes
MaxBytes == 2
\* longest version file, in statements
MaxStmts == 2

\* The bytes a file can hold: 'A', and the two bytes of UTF-8 'e-acute'.
\* Every byte is below 224, so UTF-8 sequences are one or two bytes long.
ByteAlphabet == {65, 195, 169}

SeqsUpTo(S, n) == UNION {[1..k -> S] : k \in 0..n}

\* Interpreters and default text encodings the script is written for
\* (classifiers, lines 47-52; the fallback of lines 29-32).
Runtimes == {"py2", "py3_utf8", "py3_latin1", "py3_ascii"}

Names == {"__version__", "long_description"}

Unbound == [kind |-> "unbound", data |-> <<>>]

\* the type of a string literal and of the text read() returns
StrKind(rt) == IF rt = "py2" THEN "bytes" ELSE "text"

----------------------------------------------------------------------------
(* Decoding: what read() does to the bytes of a file.                      *)

RECURSIVE Utf8Decode(_)
\* read() of a file opened with encoding='utf-8' (line 30).  On an invalid
\* sequence ok is FALSE and data is what was decoded before it.
Utf8Decode(bs) ==
    IF bs = <<>> THEN [ok |-> TRUE, data |-> <<>>]
    ELSE LET b == Head(bs) IN
         IF b < 128
         THEN LET r == Utf8Decode(Tail(bs))
              IN  [ok |-> r.ok, data |-> <<b>> \o r.data]
         ELSE IF b >= 194 /\ b <= 223 /\ Len(bs) >= 2
                 /\ bs[2] >= 128 /\ bs[2] <= 191
         THEN LET r == Utf8Decode(Tail(Tail(bs)))
              IN  [ok |-> r.ok,
                   data |-> <<(b - 192) * 64 + (bs[2] - 128)>> \o r.data]
         ELSE [ok |-> FALSE, data |-> <<>>]

\* read() of a file opened without an encoding (lines 26 and 32): Python 2
\* returns the bytes, Python 3 decodes them with the locale's encoding.
DefaultDecode(rt, bs) ==
    CASE rt = "py2"        -> [ok |-> TRUE, data |-> bs]
      [] rt = "py3_utf8"   -> Utf8Decode(bs)
      [] rt = "py3_latin1" -> [ok |-> TRUE, data |-> bs]
      [] rt = "py3_ascii"  ->
            [ok |-> \A i \in 1..Len(bs) : bs[i] < 128,
             data |-> SubSeq(bs, 1,
                 Cardinality({i \in 1..Len(bs) :
                                \A j \in 1..i : bs[j] < 128}))]

----------------------------------------------------------------------------
(* The version file, macrel/macrel_version.py.                             *)

VersionValues == {<<>>, <<49>>}

Stmt(op, name, value) == [op |-> op, name |-> name, value |-> value]

\* The statements a version file is made of: an assignment of a string
\* literal to a global, a statement that raises, a line that does not parse.
Stmts ==
    {Stmt("assign", "__version__", v) : v \in VersionValues}
    \cup {Stmt("assign", "long_description", <<83>>),
          Stmt("raise", "", <<>>),
          Stmt("syntax_error", "", <<>>)}

\* the bytes of a leading comment of the version file
VersionComments == {<<>>, <<195>>}

VersionFiles ==
    {[exists |-> FALSE, comment |-> <<>>, stmts |-> <<>>]}
    \cup {[exists |-> TRUE, comment |-> c, stmts |-> s] :
             c \in VersionComments, s \in SeqsUpTo(Stmts, MaxStmts)}

\* compile(source, 'macrel/macrel_version.py', 'exec') (lines 26-27): a
\* SyntaxError for a line that does not parse.  The source is the string
\* read() returned, so a non-ASCII byte of a comment is accepted by every
\* interpreter (the encoding declaration is required of source files only).
CompileOk(vf) ==
    \A i \in 1..Len(vf.stmts) : vf.stmts[i].op # "syntax_error"

RECURSIVE ExecStmts(_, _, _)
\* exec(code) in the globals of setup.py (line 26): the statements run in
\* order, each assignment binds a global, a raise ends the execution.
ExecStmts(rt, stmts, g) ==
    IF stmts = <<>> THEN [raised |-> FALSE, g |-> g]
    ELSE LET s == Head(stmts) IN
         IF s.op = "assign"
         THEN ExecStmts(rt, Tail(stmts),
                  [g EXCEPT ![s.name] =
                      [kind |-> StrKind(rt), data |-> s.value]])
         ELSE [raised |-> TRUE, g |-> g]

----------------------------------------------------------------------------
(* README.md and package discovery.                                        *)

Readmes ==
    {[exists |-> FALSE, bytes |-> <<>>]}
    \cup {[exists |-> TRUE, bytes |-> b] : b \in SeqsUpTo(ByteAlphabet, MaxBytes)}

\* outcomes of setuptools.find_packages() (line 42)
PackageResults ==
    {[ok |-> FALSE, list |-> <<>>],
     [ok |-> TRUE, list |-> <<>>],
     [ok |-> TRUE, list |-> <<"macrel">>]}

Envs ==
    [rt : Runtimes, version : VersionFiles, readme : Readmes,
     pkgs : PackageResults]

----------------------------------------------------------------------------
(* The literals of the setup call.                                         *)

\* 'macrel= macrel.main:main' (line 74), one character per element
MacrelEntry ==
    <<"m","a","c","r","e","l","="," ","m","a","c","r","e","l",".",
      "m","a","i","n",":","m","a","i","n">>

\* Mutant of ConsoleScripts: a second console command is declared.
ConsoleScripts_Extra == <<MacrelEntry, <<"f","a","c","s","=","m",":","f">>>>

\* entry_points['console_scripts'] (lines 72-76)
ConsoleScripts == <<MacrelEntry>>

\* position of the first c in s, or 0
IndexOf(s, c) ==
    IF \E i \in 1..Len(s) : s[i] = c
    THEN CHOOSE i \in 1..Len(s) : s[i] = c /\ \A j \in 1..(i - 1) : s[j] # c
    ELSE 0

RECURSIVE Strip(_)
\* str.strip() for blanks
Strip(s) ==
    IF s = <<>> THEN s
    ELSE IF Head(s) = " " THEN Strip(Tail(s))
    ELSE IF s[Len(s)] = " " THEN Strip(SubSeq(s, 1, Len(s) - 1))
    ELSE s

\* The console script an entry 'name = module:attr' declares: the command
\* name left of '=', the module and the function right of it.
ParseEntryPoint(s) ==
    LET eq  == IndexOf(s, "=")
        lhs == Strip(SubSeq(s, 1, eq - 1))
        rhs == Strip(SubSeq(s, eq + 1, Len(s)))
        col == IndexOf(rhs, ":")
    IN  [name   |-> lhs,
         module |-> Strip(SubSeq(rhs, 1, col - 1)),
         attr   |-> Strip(SubSeq(rhs, col + 1, Len(rhs)))]

\* Mutant of SetupArgs: the version is a literal of the script, not the
\* value the version file defines.
SetupArgs_LiteralVersion(g, pk) ==
    [name |-> "macrel",
     version |-> [g["__version__"] EXCEPT !.data = <<49>>],
     long_description |-> g["long_description"],
     packages |-> pk,
     console_scripts |-> ConsoleScripts]

\* Mutant of SetupArgs: the text read from README.md is not passed on.
SetupArgs_NoLongDescription(g, pk) ==
    [name |-> "macrel",
     version |-> g["__version__"],
     long_description |-> [g["long_description"] EXCEPT !.data = <<>>],
     packages |-> pk,
     console_scripts |-> ConsoleScripts]

\* the keyword arguments of setuptools.setup (lines 58-77) that depend on
\* the run, with the entry points
SetupArgs(g, pk) ==
    [name |-> "macrel",
     version |-> g["__version__"],
     long_description |-> g["long_description"],
     packages |-> pk,
     console_scripts |-> ConsoleScripts]

----------------------------------------------------------------------------
(* The script.                                                             *)

Init ==
    /\ pc = "L26_open"
    /\ env \in Envs
    /\ globals = [n \in Names |-> Unbound]
    /\ packages = <<>>
    /\ err = "none"
    /\ errAt = "none"
    /\ caught = "none"
    /\ partial = <<>>
    /\ opens = [version |-> 0, readme_utf8 |-> 0, readme_plain |-> 0]
    /\ findCalls = 0
    /\ staged = <<>>
    /\ setupCalls = <<>>
    /\ trace = <<>>

\* an exception nothing catches: the script ends
Raise(e) ==
    /\ pc' = "error"
    /\ err' = e
    /\ errAt' = pc

\* Mutant of ExceptTarget: the handler does nothing (except: pass).
ExceptTarget_Pass == "L42"

\* where an exception raised inside the try of line 29 continues: the bare
\* except of line 31, whose body is line 32
ExceptTarget == "L32_open"

\* line 26: open('macrel/macrel_version.py')
L26_open ==
    /\ pc = "L26_open"
    /\ opens' = [opens EXCEPT !.version = @ + 1]
    /\ IF env.version.exists
       THEN pc' = "L26_read" /\ UNCHANGED <<err, errAt>>
       ELSE Raise("IOError")
    /\ UNCHANGED <<env, globals, packages, caught, partial, findCalls,
                   staged, setupCalls, trace>>

\* line 26: .read()
L26_read ==
    /\ pc = "L26_read"
    /\ IF DefaultDecode(env.rt, env.version.comment).ok
       THEN pc' = "L26_compile" /\ UNCHANGED <<err, errAt>>
       ELSE Raise("UnicodeDecodeError")
    /\ UNCHANGED <<env, globals, packages, caught, partial, opens, findCalls,
                   staged, setupCalls, trace>>

\* lines 26-27: compile(..., 'exec')
L26_compile ==
    /\ pc = "L26_compile"
    /\ IF CompileOk(env.version)
       THEN pc' = "L26_exec" /\ UNCHANGED <<err, errAt>>
       ELSE Raise("SyntaxError")
    /\ UNCHANGED <<env, globals, packages, caught, partial, opens, findCalls,
                   staged, setupCalls, trace>>

\* Mutant of L26_exec: the script goes on to package discovery without
\* reading README.md.
L26_exec_SkipReadme ==
    /\ pc = "L26_exec"
    /\ LET r == ExecStmts(env.rt, env.version.stmts, globals) IN
       /\ globals' = r.g
       /\ IF r.raised
          THEN Raise("Exception") /\ UNCHANGED trace
          ELSE /\ pc' = "L42"
               /\ trace' = Append(trace, "version")
               /\ UNCHANGED <<err, errAt>>
    /\ UNCHANGED <<env, packages, caught, partial, opens, findCalls, staged,
                   setupCalls>>

\* line 26: exec(...)
L26_exec ==
    /\ pc = "L26_exec"
    /\ LET r == ExecStmts(env.rt, env.version.stmts, globals) IN
       /\ globals' = r.g
       /\ IF r.raised
          THEN Raise("Exception") /\ UNCHANGED trace
          ELSE /\ pc' = "L30_open"
               /\ trace' = Append(trace, "version")
               /\ UNCHANGED <<err, errAt>>
    /\ UNCHANGED <<env, packages, caught, partial, opens, findCalls, staged,
                   setupCalls>>

\* Mutant of L30_open: the handler is `except IOError:`, so the TypeError
\* of Python 2's open is not caught.
L30_open_ExceptIOError ==
    /\ pc = "L30_open"
    /\ opens' = [opens EXCEPT !.readme_utf8 = @ + 1]
    /\ IF env.rt = "py2"
       THEN Raise("TypeError") /\ UNCHANGED caught
       ELSE IF ~env.readme.exists
       THEN pc' = ExceptTarget /\ caught' = "IOError" /\ UNCHANGED <<err, errAt>>
       ELSE pc' = "L30_read" /\ UNCHANGED <<caught, err, errAt>>
    /\ UNCHANGED <<env, globals, packages, partial, findCalls,
                   staged, setupCalls, trace>>

\* line 30: open('README.md', encoding='utf-8').  Python 2's open takes no
\* encoding argument and raises TypeError before it looks at the file.
L30_open ==
    /\ pc = "L30_open"
    /\ opens' = [opens EXCEPT !.readme_utf8 = @ + 1]
    /\ IF env.rt = "py2"
       THEN pc' = ExceptTarget /\ caught' = "TypeError"
       ELSE IF ~env.readme.exists
       THEN pc' = ExceptTarget /\ caught' = "IOError"
       ELSE pc' = "L30_read" /\ UNCHANGED caught
    /\ UNCHANGED <<env, globals, packages, err, errAt, partial, findCalls,
                   staged, setupCalls, trace>>

\* Mutant of L30_read: no try/except, the second read always follows the
\* first.
L30_read_ThenPlain ==
    /\ pc = "L30_read"
    /\ LET r == Utf8Decode(env.readme.bytes) IN
       IF r.ok
       THEN /\ globals' = [globals EXCEPT !["long_description"] =
                              [kind |-> "text", data |-> r.data]]
            /\ pc' = "L32_open"
            /\ UNCHANGED <<caught, partial, trace>>
       ELSE /\ pc' = ExceptTarget
            /\ caught' = "UnicodeDecodeError"
            /\ partial' = r.data
            /\ UNCHANGED <<globals, trace>>
    /\ UNCHANGED <<env, packages, err, errAt, opens, findCalls, staged,
                   setupCalls>>

\* line 30: .read() and the assignment to long_description
L30_read ==
    /\ pc = "L30_read"
    /\ LET r == Utf8Decode(env.readme.bytes) IN
       IF r.ok
       THEN /\ globals' = [globals EXCEPT !["long_description"] =
                              [kind |-> "text", data |-> r.data]]
            /\ pc' = "L42"
            /\ trace' = Append(trace, "readme")
            /\ UNCHANGED <<caught, partial>>
       ELSE /\ pc' = ExceptTarget
            /\ caught' = "UnicodeDecodeError"
            /\ partial' = r.data
            /\ UNCHANGED <<globals, trace>>
    /\ UNCHANGED <<env, packages, err, errAt, opens, findCalls, staged,
                   setupCalls>>

\* line 32: open('README.md')
L32_open ==
    /\ pc = "L32_open"
    /\ opens' = [opens EXCEPT !.readme_plain = @ + 1]
    /\ IF env.readme.exists
       THEN pc' = "L32_read" /\ UNCHANGED <<err, errAt>>
       ELSE Raise("IOError")
    /\ UNCHANGED <<env, globals, packages, caught, partial, findCalls,
                   staged, setupCalls, trace>>

\* line 32: .read() and the assignment to long_description
L32_read ==
    /\ pc = "L32_read"
    /\ LET r == DefaultDecode(env.rt, env.readme.bytes) IN
       IF r.ok
       THEN /\ globals' = [globals EXCEPT !["long_description"] =
                              [kind |-> StrKind(env.rt), data |-> r.data]]
            /\ pc' = "L42"
            /\ trace' = Append(trace, "readme")
            /\ UNCHANGED <<err, errAt>>
       ELSE /\ Raise("UnicodeDecodeError")
            /\ UNCHANGED <<globals, trace>>
    /\ UNCHANGED <<env, packages, caught, partial, opens, findCalls, staged,
                   setupCalls>>

\* Mutant of L42: a failure of find_packages is swallowed and the script
\* goes on with no packages.
L42_Swallow ==
    /\ pc = "L42"
    /\ findCalls' = findCalls + 1
    /\ packages' = env.pkgs.list
    /\ pc' = "L58_args"
    /\ trace' = Append(trace, "packages")
    /\ UNCHANGED <<env, globals, caught, partial, opens, staged, setupCalls,
                   err, errAt>>

\* lines 35-42: the two dictionary literals, then
\* packages = setuptools.find_packages()
L42 ==
    /\ pc = "L42"
    /\ findCalls' = findCalls + 1
    /\ IF env.pkgs.ok
       THEN /\ packages' = env.pkgs.list
            /\ pc' = "L58_args"
            /\ trace' = Append(trace, "packages")
            /\ UNCHANGED <<err, errAt>>
       ELSE /\ Raise("Exception")
            /\ UNCHANGED <<packages, trace>>
    /\ UNCHANGED <<env, globals, caught, partial, opens, staged, setupCalls>>

\* Mutant of L58_args: the version is looked up with a default
\* (globals().get('__version__')), so an unbound name does not raise.
L58_args_Default ==
    /\ pc = "L58_args"
    /\ staged' = <<SetupArgs(globals, packages)>>
    /\ pc' = "L58_call"
    /\ UNCHANGED <<env, globals, packages, caught, partial, opens, findCalls,
                   setupCalls, trace, err, errAt>>

\* lines 44-77: the classifiers literal, then the arguments of the setup
\* call are evaluated; an unbound __version__ raises NameError
L58_args ==
    /\ pc = "L58_args"
    /\ IF globals["__version__"] = Unbound
       THEN Raise("NameError") /\ UNCHANGED staged
       ELSE /\ staged' = <<SetupArgs(globals, packages)>>
            /\ pc' = "L58_call"
            /\ UNCHANGED <<err, errAt>>
    /\ UNCHANGED <<env, globals, packages, caught, partial, opens, findCalls,
                   setupCalls, trace>>

\* lines 58-78: setuptools.setup(...) is called and the script ends
L58_call ==
    /\ pc = "L58_call"
    /\ setupCalls' = setupCalls \o staged
    /\ trace' = Append(trace, "setup")
    /\ pc' = "done"
    /\ UNCHANGED <<env, globals, packages, err, errAt, caught, partial, opens,
                   findCalls, staged>>

Next ==
    \/ L26_open
    \/ L26_read
    \/ L26_compile
    \/ L26_exec
    \/ L30_open
    \/ L30_read
    \/ L32_open
    \/ L32_read
    \/ L42
    \/ L58_args
    \/ L58_call

Spec == Init /\ [][Next]_vars

----------------------------------------------------------------------------
(* Properties of a run.                                                    *)

LongDescription == globals["long_description"]

\* a read of README.md has succeeded
ReadmeRead == Len(trace) >= 2

\* the first attempt raised and the second read succeeded
FallbackSucceeded == caught # "none" /\ ReadmeRead

\* the text the read without an encoding returns for README.md
PlainText ==
    [kind |-> StrKind(env.rt),
     data |-> DefaultDecode(env.rt, env.readme.bytes).data]

\* the text the utf-8 read returns for README.md
Utf8Text == [kind |-> "text", data |-> Utf8Decode(env.readme.bytes).data]

\* the environment makes the first attempt (line 30) raise
FirstAttemptRaises ==
    \/ env.rt = "py2"
    \/ ~env.readme.exists
    \/ ~Utf8Decode(env.readme.bytes).ok

\* the first attempt is over
FirstAttemptOver ==
    opens.readme_utf8 >= 1 /\ pc # "L30_read"

\* C1: whenever the first attempt to read README.md raises, README.md is
\* opened exactly once more, without an encoding; when that second read
\* succeeds its text is long_description, the script goes on with package
\* discovery and the setup call, and the call receives that text.
C1_ReadmeFallback ==
    /\ opens.readme_utf8 <= 1
    /\ (FirstAttemptRaises /\ FirstAttemptOver) => caught # "none"
    /\ caught # "none" =>
          \/ pc = "L32_open" /\ opens.readme_plain = 0
          \/ opens.readme_plain = 1
    /\ FallbackSucceeded =>
          /\ LongDescription = PlainText
          /\ pc \in {"L42", "L58_args", "L58_call", "done", "error"}
          /\ pc = "error" => errAt \in {"L42", "L58_args"}
          /\ pc = "L58_call" => staged[1].long_description = PlainText
          /\ pc = "done" => /\ Len(setupCalls) = 1
                            /\ setupCalls[1].long_description = PlainText

C1_Witness == FallbackSucceeded /\ pc = "done"

Chars_macrel == <<"m","a","c","r","e","l">>
Chars_main == <<"m","a","i","n">>

\* C2: every call of setuptools.setup declares exactly one console script;
\* its command is macrel and it dispatches to main of module macrel.main.
C2_OneConsoleScript ==
    \A i \in 1..Len(setupCalls) :
        LET cs == setupCalls[i].console_scripts IN
        /\ Len(cs) = 1
        /\ ParseEntryPoint(cs[1]) =
              [name   |-> Chars_macrel,
               module |-> Chars_macrel \o <<".">> \o Chars_main,
               attr   |-> Chars_main]

C2_Witness == Len(setupCalls) = 1 /\ pc = "done"

\* the positions of the version file's assignments to __version__
VersionAssignments ==
    {i \in 1..Len(env.version.stmts) :
        /\ env.version.stmts[i].op = "assign"
        /\ env.version.stmts[i].name = "__version__"}

\* the string the version file's last assignment gives __version__
DefinedVersion ==
    LET last == CHOOSE i \in VersionAssignments :
                    \A j \in VersionAssignments : j <= i
    IN  env.version.stmts[last].value

\* C3 as stated: the version passed to setuptools.setup is non-empty and is
\* the value of __version__ the version file defines.
C3_VersionNonEmpty ==
    \A i \in 1..Len(setupCalls) :
        /\ VersionAssignments # {}
        /\ setupCalls[i].version.data = DefinedVersion
        /\ setupCalls[i].version.data # <<>>

\* C3, amended: the version passed to setuptools.setup is the value of
\* __version__ the version file defines, and is empty exactly when that
\* value is the empty string.
C3_VersionMatches ==
    \A i \in 1..Len(setupCalls) :
        /\ VersionAssignments # {}
        /\ setupCalls[i].version =
              [kind |-> StrKind(env.rt), data |-> DefinedVersion]
        /\ setupCalls[i].version.data = <<>> <=> DefinedVersion = <<>>

C3_Witness ==
    /\ Len(setupCalls) = 1
    /\ Cardinality(VersionAssignments) = 2
    /\ setupCalls[1].version.data # <<>>

\* C4 as stated: once a read of README.md has succeeded, long_description
\* is non-empty, and so is the long_description passed to setuptools.setup.
C4_LongDescriptionNonEmpty ==
    ReadmeRead =>
        /\ LongDescription.data # <<>>
        /\ \A i \in 1..Len(setupCalls) :
              setupCalls[i].long_description.data # <<>>

\* C4, amended: once a read of README.md has succeeded, long_description is
\* the text that read returned, setuptools.setup is passed that text, and
\* it is empty exactly when README.md is an empty file.
C4_LongDescriptionIsReadme ==
    ReadmeRead =>
        /\ LongDescription = IF caught = "none" THEN Utf8Text ELSE PlainText
        /\ LongDescription.data = <<>> <=> env.readme.bytes = <<>>
        /\ \A i \in 1..Len(setupCalls) :
              /\ setupCalls[i].long_description = LongDescription
              /\ setupCalls[i].long_description.data = <<>>
                    <=> env.readme.bytes = <<>>

C4_Witness ==
    /\ Len(setupCalls) = 1
    /\ setupCalls[1].long_description.data # <<>>
    /\ caught = "UnicodeDecodeError"

\* the environment makes line 26 raise
VersionFileRaises ==
    \/ ~env.version.exists
    \/ ~DefaultDecode(env.rt, env.version.comment).ok
    \/ ~CompileOk(env.version)
    \/ \E i \in 1..Len(env.version.stmts) : env.version.stmts[i].op = "raise"

\* the environment makes the read of line 32 raise
PlainReadRaises ==
    \/ ~env.readme.exists
    \/ ~DefaultDecode(env.rt, env.readme.bytes).ok

Line26 == {"L26_open", "L26_read", "L26_compile", "L26_exec"}
Line32 == {"L32_open", "L32_read"}

\* C5: nothing but the first README read is recovered from.  A failure of
\* line 26, of the second README read or of find_packages is raised once,
\* nothing is tried again, the script ends in error and setuptools.setup is
\* not called.
C5_NoOtherRecovery ==
    /\ opens.version <= 1 /\ opens.readme_plain <= 1 /\ findCalls <= 1
    /\ pc = "error" => setupCalls = <<>> /\ staged = <<>> /\ err # "none"
    /\ VersionFileRaises =>
          /\ pc \in Line26 \cup {"error"}
          /\ pc = "error" => errAt \in Line26
          /\ opens.readme_utf8 = 0 /\ findCalls = 0 /\ setupCalls = <<>>
    /\ (caught # "none" /\ PlainReadRaises) =>
          /\ pc \in Line32 \cup {"error"}
          /\ pc = "error" => errAt \in Line32
          /\ findCalls = 0 /\ setupCalls = <<>>
    /\ (findCalls = 1 /\ ~env.pkgs.ok) =>
          /\ pc = "error" /\ errAt = "L42"
          /\ setupCalls = <<>>

C5_Witness ==
    /\ pc = "error" /\ errAt = "L32_read"
    /\ caught = "UnicodeDecodeError" /\ err = "UnicodeDecodeError"

Order == <<"version", "readme", "packages", "setup">>

\* C6: the stages of a run complete in the order version file, README.md,
\* package discovery, setup; nothing of a later stage is started before the
\* earlier one completed; setuptools.setup is called at most once, after
\* the version file was executed and README.md was read.
C6_Ordering ==
    /\ Len(trace) <= Len(Order)
    /\ trace = SubSeq(Order, 1, Len(trace))
    /\ Len(setupCalls) <= 1
    /\ setupCalls # <<>> <=> trace = Order
    /\ opens.readme_utf8 + opens.readme_plain > 0 => Len(trace) >= 1
    /\ findCalls > 0 => Len(trace) >= 2
    /\ staged # <<>> => Len(trace) >= 3

C6_Witness == trace = Order /\ pc = "done" /\ caught = "none"

\* C7: when the utf-8 read of README.md succeeds there is no second read
\* and long_description is the text the utf-8 read returned; README.md is
\* opened at most twice, the second time only after the first attempt
\* raised.
C7_NoFallbackOnSuccess ==
    /\ opens.readme_utf8 <= 1 /\ opens.readme_plain <= 1
    /\ opens.readme_plain > 0 => caught # "none" /\ opens.readme_utf8 = 1
    /\ pc \in Line32 => caught # "none"
    /\ (~FirstAttemptRaises /\ FirstAttemptOver) =>
          caught = "none" /\ ReadmeRead
    /\ (caught = "none" /\ ReadmeRead) =>
          /\ opens.readme_plain = 0
          /\ LongDescription = Utf8Text
          /\ \A i \in 1..Len(setupCalls) :
                setupCalls[i].long_description = Utf8Text

C7_Witness ==
    /\ caught = "none" /\ pc = "done"
    /\ LongDescription.data # <<>> /\ opens.readme_utf8 = 1

\* the globals as the execution of the version file left them
GlobalsAfterExec ==
    ExecStmts(env.rt, env.version.stmts, [n \in Names |-> Unbound]).g

\* C8: every exception of the first attempt leads to the second read: the
\* TypeError of an open that takes no encoding argument, the error of an
\* open that fails, the decoding error of a read after a successful open.
\* The failed attempt assigns nothing, and after the second read
\* long_description is the text of that read, not what the first had decoded.
C8_AnyExceptionFallsBack ==
    /\ errAt \notin {"L30_open", "L30_read"}
    /\ FirstAttemptOver =>
          caught = (CASE env.rt = "py2" -> "TypeError"
                      [] env.rt # "py2" /\ ~env.readme.exists -> "IOError"
                      [] env.rt # "py2" /\ env.readme.exists
                         /\ ~Utf8Decode(env.readme.bytes).ok
                           -> "UnicodeDecodeError"
                      [] OTHER -> "none")
    /\ caught # "none" =>
          /\ pc \in Line32 \/ opens.readme_plain = 1
          /\ (pc \in Line32 \/ errAt \in Line32) => globals = GlobalsAfterExec
    /\ caught = "UnicodeDecodeError" =>
          partial = Utf8Decode(env.readme.bytes).data
    /\ FallbackSucceeded =>
          /\ LongDescription = PlainText
          /\ caught = "UnicodeDecodeError" => LongDescription.data # partial

C8_Witness ==
    /\ caught = "UnicodeDecodeError" /\ partial # <<>>
    /\ ReadmeRead /\ pc = "L42"

\* the version file was executed and left __version__ unbound
VersionUnbound == Len(trace) >= 1 /\ globals["__version__"] = Unbound

\* C9: setuptools.setup is called only with __version__ bound.  When the
\* version file executes without defining it, README.md is still read and
\* the packages are still discovered, and the script then ends with a
\* NameError raised while the arguments of the call are evaluated.
C9_UnboundVersion ==
    /\ \A i \in 1..Len(setupCalls) : setupCalls[i].version # Unbound
    /\ staged # <<>> => globals["__version__"] # Unbound
    /\ err = "NameError" <=> (VersionUnbound /\ errAt = "L58_args")
    /\ VersionUnbound =>
          /\ VersionAssignments = {}
          /\ pc \notin {"L58_call", "done"}
          /\ setupCalls = <<>> /\ staged = <<>>
          /\ pc = "error" => errAt \in Line32 \cup {"L42", "L58_args"}
          /\ Len(trace) = 3 => pc \in {"L58_args", "error"}
          /\ errAt = "L58_args" =>
                /\ trace = <<"version", "readme", "packages">>
                /\ opens.readme_utf8 = 1 /\ findCalls = 1

C9_Witness ==
    /\ pc = "error" /\ err = "NameError"
    /\ env.version.exists /\ LongDescription # Unbound

====
